---------------------------- MODULE Spec2Model ----------------------------
(***************************************************************************)
(* Model of dialectica-server (src/dialectica-server/src/main.rs).         *)
(*                                                                         *)
(* main builds an actix-web HttpServer whose application holds one         *)
(* service, actix_files::Files mounted at "/" on the directory             *)
(* /var/www/assets/dialectica with index file "index.html", binds it to    *)
(* 127.0.0.1:8000 (propagating a bind error with `?`) and awaits run().    *)
(*                                                                         *)
(* The program's behaviour is the behaviour of the calls made on lines     *)
(* 6-13.  Each definition below models what the named call does with the   *)
(* arguments main passes and the options main leaves at their defaults    *)
(* (hidden files off, no redirect to slash, no directory listing, no       *)
(* default handler, no method guard).  The bodies of those calls are       *)
(* actix-web's and actix-files', which the repository uses and does not    *)
(* contain.                                                                *)
(*                                                                         *)
(* A request is a method and a path; the path "/s1/s2" is the sequence of  *)
(* its segments <<s1, s2>>, "/" is <<"">> and a trailing slash is a last   *)
(* empty segment.  Requests carry no conditional or range headers and no   *)
(* percent-encoding.  The filesystem maps absolute paths to nodes; it has  *)
(* no symbolic links.                                                      *)
(***************************************************************************)
EXTENDS Integers, Sequences, FiniteSets, TLC

VARIABLES
    state,      \* lifecycle of the process: "Starting", "Listening", "Terminated"
    bound,      \* result of .bind(..): "pending", "Ok" or the io error kind
    attempts,   \* number of bind calls made
    exitCode,   \* exit status of the process, -1 while it runs
    config,     \* the values compiled into main
    fs,         \* the filesystem: absolute path -> node
    pc,         \* per worker: "idle", "opening" (awaiting NamedFile::open_async), "done"
    req,        \* per worker: the request of the current or last exchange
    target,     \* per worker: the path on disk the service resolved
    checked,    \* per worker: canonicalize() of the resolved path succeeded
    resp        \* per worker: the response of the last exchange

vars == <<state, bound, attempts, exitCode, config, fs, pc, req, target, checked, resp>>

---------------------------------------------------------------------------
(* Bounds *)

MaxSegs == 2
NumWorkers == 2

Workers == 1..NumWorkers

---------------------------------------------------------------------------
(* The values main passes *)

bind_address == "127.0.0.1:8000"
mount_path == "/"
root_directory == <<"var", "www", "assets", "dialectica">>
index_file_name == "index.html"

Config ==
    [bind_address |-> bind_address,
     root_directory |-> root_directory,
     index_file_name |-> index_file_name]

(* Options of Files that main does not set *)
hidden_files == FALSE
redirect_to_slash_set == TRUE
redirect_to_slash == FALSE

---------------------------------------------------------------------------
(* Requests *)

Segments == {"..", "", "app", "index.html", "style.css", ".env", "c:"}

Spell(s) ==
    CASE s = ""           -> <<>>
      [] s = ".."         -> <<".", ".">>
      [] s = ".env"       -> <<".", "e", "n", "v">>
      [] s = "c:"         -> <<"c", ":">>
      [] s = "app"        -> <<"a", "p", "p">>
      [] s = "index.html" -> <<"i", "n", "d", "e", "x", ".", "h", "t", "m", "l">>
      [] s = "style.css"  -> <<"s", "t", "y", "l", "e", ".", "c", "s", "s">>

starts_with(s, ch) == Len(Spell(s)) > 0 /\ Spell(s)[1] = ch
ends_with(s, ch) == Len(Spell(s)) > 0 /\ Spell(s)[Len(Spell(s))] = ch
is_empty(s) == Len(Spell(s)) = 0

SeqsUpTo(S, n) == UNION {[1..k -> S] : k \in 1..n}

Paths == SeqsUpTo(Segments, MaxSegs)
(* The service looks at the method before the path: one segment is enough *)
(* for the requests whose method it refuses.                             *)
Requests ==
    [method : {"GET"}, path : Paths]
        \cup [method : {"POST"}, path : SeqsUpTo(Segments, 1)]

NoRequest == [method |-> "none", path |-> <<>>]
Malformed == [method |-> "malformed", path |-> <<>>]

---------------------------------------------------------------------------
(* Responses *)

Response(st, b) == [status |-> st, body |-> b]
NoResponse == Response(0, "")

---------------------------------------------------------------------------
(* The filesystem *)

outside_directory == <<"var", "www", "assets">>

RootIndex == root_directory \o <<"index.html">>
RootStyle == root_directory \o <<"style.css">>
RootApp == root_directory \o <<"app">>
AppIndex == RootApp \o <<"index.html">>
RootEnv == root_directory \o <<".env">>
OutsideStyle == outside_directory \o <<"style.css">>

Nodes == {RootIndex, RootStyle, RootApp, AppIndex, RootEnv, OutsideStyle}

File(bytes) == [kind |-> "file", fault |-> "none", content |-> bytes]
Dir == [kind |-> "dir", fault |-> "none", content |-> ""]

Deployed ==
    [n \in Nodes |->
        CASE n = RootIndex    -> File("<h1>Home</h1>")
          [] n = RootStyle    -> File("body{}")
          [] n = RootApp      -> Dir
          [] n = AppIndex     -> File("<app/>")
          [] n = RootEnv      -> File("KEY=1")
          [] n = OutsideStyle -> File("SECRET")]

IsPrefix(p, q) == Len(p) <= Len(q) /\ SubSeq(q, 1, Len(p)) = p

Pop(buf) == IF buf = <<>> THEN buf ELSE SubSeq(buf, 1, Len(buf) - 1)

(* The path the operating system reaches for p: ".." steps to the parent. *)
RECURSIVE PhysFrom(_, _)
PhysFrom(p, acc) ==
    IF p = <<>> THEN acc
    ELSE IF Head(p) = ".." THEN PhysFrom(Tail(p), Pop(acc))
    ELSE PhysFrom(Tail(p), Append(acc, Head(p)))

Phys(p) == PhysFrom(p, <<>>)

Kind(f, p) ==
    IF p \in DOMAIN f THEN f[p].kind
    ELSE IF IsPrefix(p, root_directory) THEN "dir"
    ELSE "absent"

(* stat(2) of a path: the kind of the node, or the error of the walk to it. *)
Stat(f, path) ==
    LET p == Phys(path)
        bad == {i \in 1..(Len(p) - 1) : Kind(f, SubSeq(p, 1, i)) # "dir"}
        first == CHOOSE i \in bad : \A j \in bad : i <= j
    IN  IF bad # {}
        THEN [err |-> IF Kind(f, SubSeq(p, 1, first)) = "file"
                      THEN "NotADirectory" ELSE "NotFound",
              kind |-> "absent"]
        ELSE IF Kind(f, p) = "absent"
        THEN [err |-> "NotFound", kind |-> "absent"]
        ELSE [err |-> "none", kind |-> Kind(f, p)]

---------------------------------------------------------------------------
(* actix_files::Files, as configured on line 9 *)

PathOk(buf) == [ok |-> TRUE, buf |-> buf, err |-> "none"]
PathErr(e) == [ok |-> FALSE, buf |-> <<>>, err |-> e]

(* PathBufWrap::parse_path: the request's segments, left to right.  ".."    *)
(* drops the last segment kept so far (nothing when none is kept), an empty *)
(* segment is skipped, and a segment with a forbidden first or last         *)
(* character rejects the whole path.                                        *)
(* Variant: every segment is kept as it comes. *)
parse_path_verbatim(segs) == PathOk(SelectSeq(segs, LAMBDA s : s # ""))

RECURSIVE parse_from(_, _)
parse_from(segs, buf) ==
    IF segs = <<>> THEN PathOk(buf)
    ELSE LET s == Head(segs) IN
         IF s = ".." THEN parse_from(Tail(segs), Pop(buf))
         ELSE IF ~hidden_files /\ starts_with(s, ".") THEN PathErr("BadStart")
         ELSE IF starts_with(s, "*") THEN PathErr("BadStart")
         ELSE IF ends_with(s, ":") THEN PathErr("BadEnd")
         ELSE IF ends_with(s, ">") THEN PathErr("BadEnd")
         ELSE IF ends_with(s, "<") THEN PathErr("BadEnd")
         ELSE IF is_empty(s) THEN parse_from(Tail(segs), buf)
         ELSE parse_from(Tail(segs), Append(buf, s))

parse_path(segs) == parse_from(segs, <<>>)

(* Variant: every io error but NotFound is a 500. *)
status_code_coarse(kind) == IF kind = "NotFound" THEN 404 ELSE 500

(* ResponseError for std::io::Error: the status of an io error kind. *)
status_code(kind) ==
    CASE kind = "NotFound"         -> 404
      [] kind = "PermissionDenied" -> 403
      [] OTHER                     -> 500

ErrorText(kind) ==
    CASE kind = "NotFound"         -> "No such file or directory (os error 2)"
      [] kind = "PermissionDenied" -> "Permission denied (os error 13)"
      [] kind = "NotADirectory"    -> "Not a directory (os error 20)"
      [] kind = "IsADirectory"     -> "Is a directory (os error 21)"
      [] OTHER                     -> "Input/output error (os error 5)"

(* Variant: a default handler that falls back to the root index. *)
handle_err_fallback(kind) == Response(200, "<h1>Home</h1>")

(* Files::handle_err with no default handler: the error's own response. *)
handle_err(kind) == Response(status_code(kind), ErrorText(kind))

MethodNotAllowed ==
    Response(405, "Request did not meet this resource's requirements.")

UriSegmentError(e) == Response(400, e)

(* The outcome of the service up to its first await: a response, or the     *)
(* path NamedFile::open_async is about to open.                             *)
Answer(r, path, ok) == [done |-> TRUE, resp |-> r, target |-> path, checked |-> ok]
Pending(path) == [done |-> FALSE, resp |-> NoResponse, target |-> path, checked |-> TRUE]

(* Variant: the directory named in the comment on line 8. *)
path_on_disk_dltc(cfg, buf) == <<"var", "www", "assets", "dltc">> \o buf

(* The full path on disk: the served directory joined with the parsed path. *)
path_on_disk(cfg, buf) == cfg.root_directory \o buf

(* FilesService::call up to the open: method check, parse_path, join,       *)
(* canonicalize, is_dir and the choice of the index file.                   *)
files_call(cfg, f, r) ==
    IF r.method \notin {"GET", "HEAD"} THEN Answer(MethodNotAllowed, <<>>, FALSE)
    ELSE LET p == parse_path(r.path) IN
         IF ~p.ok THEN Answer(UriSegmentError(p.err), <<>>, FALSE)
         ELSE LET path == path_on_disk(cfg, p.buf)
                  st == Stat(f, path)
              IN  IF st.err # "none" THEN Answer(handle_err(st.err), path, FALSE)
                  ELSE IF st.kind = "dir"
                  THEN IF redirect_to_slash /\ r.path[Len(r.path)] # ""
                       THEN Answer(Response(302, ""), path, TRUE)
                       ELSE Pending(path \o <<cfg.index_file_name>>)
                  ELSE Pending(path)

(* Variant: the status without the bytes. *)
open_and_serve_empty(f, path) == Response(200, "")

(* NamedFile::open_async followed by the response: the file's bytes with    *)
(* 200, or the response of the io error of the open.                        *)
open_and_serve(f, path) ==
    LET st == Stat(f, path) IN
    IF st.err # "none" THEN handle_err(st.err)
    ELSE IF st.kind = "dir" THEN handle_err("IsADirectory")
    ELSE IF f[Phys(path)].fault # "none" THEN handle_err(f[Phys(path)].fault)
    ELSE Response(200, f[Phys(path)].content)

(* Variant: one path buffer shared by the workers. *)
open_target_shared(w) ==
    IF \E v \in Workers : v # w /\ pc[v] = "opening"
    THEN target[CHOOSE v \in Workers : v # w /\ pc[v] = "opening"]
    ELSE target[w]

(* The path a worker opens is the one its own call resolved. *)
open_target(w) == target[w]

(* Variant: the file served is consumed. *)
fs_after_serve_consume(f, path) ==
    IF path \in DOMAIN f /\ f[path].kind = "file"
    THEN [f EXCEPT ![path].kind = "absent"]
    ELSE f

(* The service only reads: canonicalize, is_dir and a read-only open. *)
fs_after_serve(f, path) == f

(* Variant: a server error ends the process. *)
after_exchange_fatal(s, r) == IF r.status >= 500 THEN "Terminated" ELSE s

(* HttpServer::run: the accept loop outlives every exchange. *)
after_exchange(s, r) == s

(* Variant: the bind error is dropped and the server runs. *)
after_bind_ignored(result) == [state |-> "Listening", exitCode |-> -1]

(* .bind(..)? : an error returns from main, a success goes on to run(). *)
after_bind(result) ==
    IF result = "Ok"
    THEN [state |-> "Listening", exitCode |-> -1]
    ELSE [state |-> "Terminated", exitCode |-> 1]

---------------------------------------------------------------------------
(* The state machine *)

BindResults == {"Ok", "AddrInUse", "PermissionDenied"}

Init ==
    /\ state = "Starting"
    /\ bound = "pending"
    /\ attempts = 0
    /\ exitCode = -1
    /\ config = Config
    /\ fs = Deployed
    /\ pc = [w \in Workers |-> "idle"]
    /\ req = [w \in Workers |-> NoRequest]
    /\ target = [w \in Workers |-> <<>>]
    /\ checked = [w \in Workers |-> FALSE]
    /\ resp = [w \in Workers |-> NoResponse]

(* main, lines 6-13: build the server, bind once, propagate a bind error. *)
Bind(result) ==
    /\ state = "Starting"
    /\ bound' = result
    /\ attempts' = attempts + 1
    /\ state' = after_bind(result).state
    /\ exitCode' = after_bind(result).exitCode
    /\ UNCHANGED <<config, fs, pc, req, target, checked, resp>>

(* A worker takes a request and runs the service up to its first await. *)
Request(w, r) ==
    /\ state = "Listening"
    /\ pc[w] = "idle"
    /\ LET a == files_call(config, fs, r) IN
        /\ req' = [req EXCEPT ![w] = r]
        /\ target' = [target EXCEPT ![w] = a.target]
        /\ checked' = [checked EXCEPT ![w] = a.checked]
        /\ resp' = [resp EXCEPT ![w] = a.resp]
        /\ pc' = [pc EXCEPT ![w] = IF a.done THEN "done" ELSE "opening"]
        /\ state' = IF a.done THEN after_exchange(state, a.resp) ELSE state
        /\ fs' = fs_after_serve(fs, a.target)
    /\ UNCHANGED <<bound, attempts, exitCode, config>>

(* The open completes and the worker responds. *)
Open(w) ==
    /\ state = "Listening"
    /\ pc[w] = "opening"
    /\ LET r == open_and_serve(fs, open_target(w)) IN
        /\ resp' = [resp EXCEPT ![w] = r]
        /\ state' = after_exchange(state, r)
    /\ pc' = [pc EXCEPT ![w] = "done"]
    /\ fs' = fs_after_serve(fs, open_target(w))
    /\ UNCHANGED <<bound, attempts, exitCode, config, req, target, checked>>

(* A request the HTTP layer cannot parse: 400 from the dispatcher. *)
BadRequest(w) ==
    /\ state = "Listening"
    /\ pc[w] = "idle"
    /\ req' = [req EXCEPT ![w] = Malformed]
    /\ target' = [target EXCEPT ![w] = <<>>]
    /\ checked' = [checked EXCEPT ![w] = FALSE]
    /\ resp' = [resp EXCEPT ![w] = Response(400, "")]
    /\ pc' = [pc EXCEPT ![w] = "done"]
    /\ state' = after_exchange(state, Response(400, ""))
    /\ UNCHANGED <<bound, attempts, exitCode, config, fs>>

(* The exchange is over: the worker is free for the next request. *)
Close(w) ==
    /\ state = "Listening"
    /\ pc[w] = "done"
    /\ pc' = [pc EXCEPT ![w] = "idle"]
    /\ req' = [req EXCEPT ![w] = NoRequest]
    /\ target' = [target EXCEPT ![w] = <<>>]
    /\ checked' = [checked EXCEPT ![w] = FALSE]
    /\ resp' = [resp EXCEPT ![w] = NoResponse]
    /\ UNCHANGED <<state, bound, attempts, exitCode, config, fs>>

(* The client goes away while its response is pending. *)
Disconnect(w) ==
    /\ state = "Listening"
    /\ pc[w] = "opening"
    /\ pc' = [pc EXCEPT ![w] = "idle"]
    /\ req' = [req EXCEPT ![w] = NoRequest]
    /\ target' = [target EXCEPT ![w] = <<>>]
    /\ checked' = [checked EXCEPT ![w] = FALSE]
    /\ resp' = [resp EXCEPT ![w] = NoResponse]
    /\ state' = after_exchange(state, NoResponse)
    /\ UNCHANGED <<bound, attempts, exitCode, config, fs>>

(* The environment: the deploy process changes a file under the root.  The  *)
(* exchanges already completed were made against the old filesystem and are *)
(* forgotten; those awaiting their open go on.                              *)
Removable == {RootIndex, RootStyle, AppIndex}
Faultable == {RootStyle}
Faults == {"none", "PermissionDenied", "Other"}

Forget ==
    /\ pc' = [w \in Workers |-> IF pc[w] = "done" THEN "idle" ELSE pc[w]]
    /\ req' = [w \in Workers |-> IF pc[w] = "done" THEN NoRequest ELSE req[w]]
    /\ target' = [w \in Workers |-> IF pc[w] = "done" THEN <<>> ELSE target[w]]
    /\ checked' = [w \in Workers |-> IF pc[w] = "done" THEN FALSE ELSE checked[w]]
    /\ resp' = [w \in Workers |-> IF pc[w] = "done" THEN NoResponse ELSE resp[w]]

Deploy(n, node) ==
    /\ fs[n] # node
    /\ fs' = [fs EXCEPT ![n] = node]
    /\ Forget
    /\ UNCHANGED <<state, bound, attempts, exitCode, config>>

DeployStep ==
    \/ \E n \in Removable :
          Deploy(n, [Deployed[n] EXCEPT !.kind = IF fs[n].kind = "absent"
                                                 THEN "file" ELSE "absent"])
    \/ \E n \in Faultable, x \in Faults :
          fs[n].kind = "file" /\ Deploy(n, [fs[n] EXCEPT !.fault = x])

(* The environment: the operator stops the process. *)
Terminate ==
    /\ state = "Listening"
    /\ state' = "Terminated"
    /\ exitCode' = 0
    /\ pc' = [w \in Workers |-> "idle"]
    /\ req' = [w \in Workers |-> NoRequest]
    /\ target' = [w \in Workers |-> <<>>]
    /\ checked' = [w \in Workers |-> FALSE]
    /\ resp' = [w \in Workers |-> NoResponse]
    /\ UNCHANGED <<bound, attempts, config, fs>>

ServerStep ==
    \/ \E result \in BindResults : Bind(result)
    \/ \E w \in Workers, r \in Requests : Request(w, r)
    \/ \E w \in Workers : Open(w)
    \/ \E w \in Workers : BadRequest(w)
    \/ \E w \in Workers : Disconnect(w)
    \/ \E w \in Workers : Close(w)

Next ==
    \/ \E result \in BindResults : Bind(result)
    \/ \E w \in Workers, r \in Requests : Request(w, r)
    \/ \E w \in Workers : Open(w)
    \/ \E w \in Workers : BadRequest(w)
    \/ \E w \in Workers : Disconnect(w)
    \/ \E w \in Workers : Close(w)
    \/ DeployStep
    \/ Terminate

Spec == Init /\ [][Next]_vars

---------------------------------------------------------------------------
(* Vocabulary of the properties *)

NonEmpty(P) == SelectSeq(P, LAMBDA x : x # "")
HasDotDot(P) == \E i \in 1..Len(P) : P[i] = ".."

(* The request path with each ".." cancelling the segment kept before it. *)
Neutral(P) == Phys(NonEmpty(P))

(* A segment the service refuses: it begins with "." or "*", or ends with  *)
(* ":", "<" or ">", and is not "..".                                       *)
RejectedSegment(x) ==
    /\ x # ".."
    /\ \/ starts_with(x, ".") \/ starts_with(x, "*")
       \/ ends_with(x, ":") \/ ends_with(x, "<") \/ ends_with(x, ">")

Rejected(P) == \E i \in 1..Len(P) : RejectedSegment(P[i])

Named(P) == root_directory \o Neutral(P)
NamesFile(f, P) == Stat(f, Named(P)).kind = "file"
NamesDir(f, P) == Stat(f, Named(P)).kind = "dir"
ThroughFile(f, P) == Stat(f, Named(P)).err = "NotADirectory"
IndexOf(P) == Named(P) \o <<index_file_name>>

(* The normalized path names a regular file, or a directory holding the index. *)
HasResource(f, P) ==
    \/ NamesFile(f, P)
    \/ NamesDir(f, P) /\ Stat(f, IndexOf(P)).kind = "file"

UnderRoot(p) == IsPrefix(root_directory, p)
FileContents == {Deployed[n].content : n \in {m \in Nodes : Deployed[m].kind = "file"}}
OutsideContents ==
    {fs[n].content : n \in {m \in Nodes : ~UnderRoot(m) /\ fs[m].kind = "file"}}

Got(w) == pc[w] = "done" /\ req[w].method = "GET"

EndsInSlash(P) == P[Len(P)] = ""
PlusIndex(P) ==
    IF EndsInSlash(P)
    THEN SubSeq(P, 1, Len(P) - 1) \o <<index_file_name>>
    ELSE P \o <<index_file_name>>

---------------------------------------------------------------------------
C3_Original ==
    \A w \in Workers :
        Got(w) /\ ~HasDotDot(req[w].path) /\ NamesFile(fs, req[w].path) =>
            /\ resp[w].status = 200
            /\ resp[w].body = fs[Named(req[w].path)].content

(* C3 amended: the same, for paths none of whose segments is refused and   *)
(* for files that can be opened.                                           *)
C3_FileServedExactly ==
    \A w \in Workers :
        /\ Got(w) /\ ~HasDotDot(req[w].path) /\ ~Rejected(req[w].path)
        /\ NamesFile(fs, req[w].path)
        /\ fs[Named(req[w].path)].fault = "none"
        => /\ resp[w].status = 200
           /\ resp[w].body = fs[Named(req[w].path)].content

C3_Witness ==
    \E w \in Workers :
        /\ Got(w) /\ req[w].path = <<"app", "index.html">>
        /\ resp[w] = Response(200, "<app/>")

(* C4 as stated: for P ending in "/" or naming a directory, the answer to  *)
(* P is the answer to P + index.html.                                      *)
C4_Original ==
    \A v, w \in Workers :
        /\ Got(v) /\ Got(w)
        /\ EndsInSlash(req[v].path) \/ NamesDir(fs, req[v].path)
        /\ req[w].path = PlusIndex(req[v].path)
        => resp[v] = resp[w]

(* C4 amended: the same, unless P names a regular file.                    *)
C4_IndexEquivalence ==
    \A v, w \in Workers :
        /\ Got(v) /\ Got(w)
        /\ EndsInSlash(req[v].path) \/ NamesDir(fs, req[v].path)
        /\ ~NamesFile(fs, req[v].path)
        /\ req[w].path = PlusIndex(req[v].path)
        => resp[v] = resp[w]

C4_Witness ==
    \E v, w \in Workers :
        /\ Got(v) /\ Got(w)
        /\ req[v].path = <<"app">> /\ req[w].path = <<"app", "index.html">>
        /\ resp[v].status = 200

C6_BindFailureFatal ==
    bound \notin {"pending", "Ok"} =>
        /\ state = "Terminated"
        /\ exitCode > 0
        /\ attempts = 1
        /\ \A w \in Workers :
              pc[w] = "idle" /\ req[w] = NoRequest /\ resp[w] = NoResponse

C6_Witness == bound = "AddrInUse" /\ state = "Terminated" /\ exitCode = 1

(* C7: no step of request handling takes the server out of Listening; the  *)
(* only step from Listening to Terminated is the external termination.     *)
C7_OnlyExternalTermination ==
    [][state = "Listening" /\ state' # "Listening" => Terminate]_vars

C7_Witness ==
    /\ state = "Listening"
    /\ \E v, w \in Workers :
          /\ pc[v] = "done" /\ resp[v].status = 500
          /\ pc[w] = "done" /\ req[w] = Malformed /\ resp[w].status = 400

(* C8: whatever the interleaving of the workers, a 200 carries the bytes   *)
(* of the file the worker's own request resolved to, and the answer to a   *)
(* request does not depend on the worker that handled it.                  *)
C8_NoCrossTalk ==
    /\ \A w \in Workers :
        Got(w) /\ resp[w].status = 200 =>
            /\ target[w] \in {Named(req[w].path), IndexOf(req[w].path)}
            /\ resp[w].body = fs[target[w]].content
    /\ \A v, w \in Workers :
        pc[v] = "done" /\ pc[w] = "done" /\ req[v] = req[w] => resp[v] = resp[w]

C8_Witness ==
    \E v, w \in Workers :
        /\ Got(v) /\ Got(w)
        /\ resp[v] = Response(200, "body{}")
        /\ resp[w] = Response(200, "<app/>")

C10_ServerOnlyReads ==
    /\ [](config = Config)
    /\ [][ServerStep => fs' = fs /\ config' = config]_vars

C10_Witness ==
    /\ fs = Deployed /\ config = Config
    /\ \A w \in Workers : Got(w) /\ resp[w].status = 200

============================================================================
